---- MODULE Spec2Model ----
(***************************************************************************)
(* Model of the backend of Athurnm/fullstack-app: the Express server       *)
(* (upload intake through multer, the configuration endpoint, the file     *)
(* processing endpoints) and the OpenRouterAPI relay class.                *)
(*                                                                         *)
(* JavaScript strings are modelled as sequences of one-character strings,  *)
(* so that the substring tests, prefixes, splits and concatenations of the *)
(* code are computed and not assumed.                                      *)
(***************************************************************************)
EXTENDS Integers, Sequences, FiniteSets, TLC

VARIABLES
    apiKey,     \* openRouter.apiKey
    baseURL,    \* openRouter.baseURL
    env,        \* process.env: OPENROUTER_API_KEY, OPENROUTER_BASE_URL, HTTP_REFERER
    now,        \* the value Date.now() returns
    disk,       \* the upload directory: stored file name -> bytes
    batch,      \* the POST /api/process-uploaded-files request being handled
    res         \* the last HTTP response sent, with the request it answers

vars == <<apiKey, baseURL, env, now, disk, batch, res>>

-----------------------------------------------------------------------------
(* Bounds of the model *)

\* files in one multipart request (the code allows up to 10)
MaxFiles == 2
\* Math.round(Math.random() * 1E9) ranges over 0..MaxRnd
MaxRnd == 1
\* Date.now() ranges over 0..MaxNow
MaxNow == 1

-----------------------------------------------------------------------------
(* JavaScript values and string functions *)

\* the value undefined (no string has an element of more than one character)
Undefined ==
    <<"undefined">>

\* the value null
Null ==
    <<"null">>

\* the empty string ''
Empty ==
    <<>>

\* JavaScript truthiness of a string, undefined or null
Truthy(v) ==
    /\ v # Undefined
    /\ v # Null
    /\ v # Empty

\* a || b
OrElse(a, b) ==
    IF Truthy(a) THEN a ELSE b

\* s.startsWith(p)
StartsWith(s, p) ==
    /\ Len(s) >= Len(p)
    /\ SubSeq(s, 1, Len(p)) = p

\* s.includes(p); also /p/.test(s) for a literal p
Contains(s, p) ==
    \E i \in 1..(Len(s) - Len(p) + 1) : SubSeq(s, i, i + Len(p) - 1) = p

Upper ==
    <<"A","B","C","D","E","F","G","H","I","J","K","L","M",
      "N","O","P","Q","R","S","T","U","V","W","X","Y","Z">>

Lower ==
    <<"a","b","c","d","e","f","g","h","i","j","k","l","m",
      "n","o","p","q","r","s","t","u","v","w","x","y","z">>

LowerChar(c) ==
    IF \E i \in 1..26 : Upper[i] = c
    THEN Lower[CHOOSE i \in 1..26 : Upper[i] = c]
    ELSE c

\* s.toLowerCase()
ToLowerCase(s) ==
    [i \in 1..Len(s) |-> LowerChar(s[i])]

\* the positions of character c in s
Positions(s, c) ==
    {i \in 1..Len(s) : s[i] = c}

Max(S) ==
    CHOOSE m \in S : \A x \in S : x <= m

Min(S) ==
    CHOOSE m \in S : \A x \in S : m <= x

\* path.extname(name) for a name without directory separators: from the last
\* '.' to the end; '' when there is no '.' or the only '.' starts the name
Extname(name) ==
    LET dots == Positions(name, ".")
    IN  IF dots = {} \/ Max(dots) = 1
        THEN Empty
        ELSE SubSeq(name, Max(dots), Len(name))

\* s.split('/')[1]: the text between the first '/' and the next one (or the
\* end); undefined when s has no '/'
SplitSlash1(s) ==
    LET sl == Positions(s, "/")
    IN  IF sl = {}
        THEN Undefined
        ELSE LET first == Min(sl)
                 rest  == {i \in sl : i > first}
                 stop  == IF rest = {} THEN Len(s) + 1 ELSE Min(rest)
             IN  SubSeq(s, first + 1, stop - 1)

Digits ==
    <<"0","1","2","3","4","5","6","7","8","9">>

\* String(n) for an integer n >= 0
RECURSIVE ToStr(_)
ToStr(n) ==
    IF n < 10
    THEN <<Digits[n + 1]>>
    ELSE ToStr(n \div 10) \o <<Digits[(n % 10) + 1]>>

\* parts.join(sep)
RECURSIVE Join(_, _)
Join(parts, sep) ==
    IF Len(parts) = 0 THEN Empty
    ELSE IF Len(parts) = 1 THEN parts[1]
    ELSE parts[1] \o sep \o Join(Tail(parts), sep)

B64 ==
    <<"A","B","C","D","E","F","G","H","I","J","K","L","M",
      "N","O","P","Q","R","S","T","U","V","W","X","Y","Z",
      "a","b","c","d","e","f","g","h","i","j","k","l","m",
      "n","o","p","q","r","s","t","u","v","w","x","y","z",
      "0","1","2","3","4","5","6","7","8","9","+","/">>

\* buffer.toString('base64') of a sequence of bytes
RECURSIVE Base64(_)
Base64(bytes) ==
    IF Len(bytes) = 0 THEN Empty
    ELSE IF Len(bytes) = 1 THEN
        <<B64[(bytes[1] \div 4) + 1], B64[((bytes[1] % 4) * 16) + 1], "=", "=">>
    ELSE IF Len(bytes) = 2 THEN
        <<B64[(bytes[1] \div 4) + 1],
          B64[((bytes[1] % 4) * 16) + (bytes[2] \div 16) + 1],
          B64[((bytes[2] % 16) * 4) + 1], "=">>
    ELSE
        <<B64[(bytes[1] \div 4) + 1],
          B64[((bytes[1] % 4) * 16) + (bytes[2] \div 16) + 1],
          B64[((bytes[2] % 16) * 4) + (bytes[3] \div 64) + 1],
          B64[(bytes[3] % 64) + 1]>> \o Base64(SubSeq(bytes, 4, Len(bytes)))

-----------------------------------------------------------------------------
(* Upload intake: the multer configuration of the server *)

\* MIME types the model submits
ImageJpeg ==
    <<"i","m","a","g","e","/","j","p","e","g">>
ImagePng ==
    <<"i","m","a","g","e","/","p","n","g">>
ImageGif ==
    <<"i","m","a","g","e","/","g","i","f">>
ImageSvg ==
    <<"i","m","a","g","e","/","s","v","g","+","x","m","l">>
ApplicationPdf ==
    <<"a","p","p","l","i","c","a","t","i","o","n","/","p","d","f">>
ApplicationMsword ==
    <<"a","p","p","l","i","c","a","t","i","o","n","/","m","s","w","o","r","d">>
ApplicationDocx ==
    <<"a","p","p","l","i","c","a","t","i","o","n","/","v","n","d",".","o","p","e","n","x","m","l","f","o","r","m","a","t","s","-","o","f","f","i","c","e","d","o","c","u","m","e","n","t",".","w","o","r","d","p","r","o","c","e","s","s","i","n","g","m","l",".","d","o","c","u","m","e","n","t">>
TextPlain ==
    <<"t","e","x","t","/","p","l","a","i","n">>
TextHtml ==
    <<"t","e","x","t","/","h","t","m","l">>
ApplicationJson ==
    <<"a","p","p","l","i","c","a","t","i","o","n","/","j","s","o","n">>
OctetStream ==
    <<"a","p","p","l","i","c","a","t","i","o","n","/","o","c","t","e","t","-","s","t","r","e","a","m">>

\* field names of upload.single('file') and upload.array('files', 10)
FieldFile ==
    <<"f","i","l","e">>
FieldFiles ==
    <<"f","i","l","e","s">>

\* error messages of the server
MsgInvalidFileType ==
    <<"I","n","v","a","l","i","d"," ","f","i","l","e"," ","t","y","p","e">>
MsgFileTooLarge ==
    <<"F","i","l","e"," ","t","o","o"," ","l","a","r","g","e">>
MsgNoFile ==
    <<"N","o"," ","f","i","l","e"," ","u","p","l","o","a","d","e","d">>
MsgNoFiles ==
    <<"N","o"," ","f","i","l","e","s"," ","u","p","l","o","a","d","e","d">>
MsgMissingModel ==
    <<"M","i","s","s","i","n","g"," ","r","e","q","u","i","r","e","d"," ","p","a","r","a","m","e","t","e","r",":"," ","m","o","d","e","l">>
MsgMissingParams ==
    <<"M","i","s","s","i","n","g"," ","r","e","q","u","i","r","e","d"," ","p","a","r","a","m","e","t","e","r","s",":"," ","m","o","d","e","l",","," ","f","i","l","e","C","o","n","t","e","n","t",","," ","f","i","l","e","T","y","p","e">>
MsgInvalidKey ==
    <<"I","n","v","a","l","i","d"," ","A","P","I"," ","k","e","y"," ","f","o","r","m","a","t">>

\* limits.fileSize: 10 * 1024 * 1024
FileSizeLimit ==
    10485760

\* the alternatives of /jpeg|jpg|png|gif|pdf|doc|docx|txt|json/
AllowedTypes ==
    { <<"j","p","e","g">>, <<"j","p","g">>, <<"p","n","g">>, <<"g","i","f">>, <<"p","d","f">>,
      <<"d","o","c">>, <<"d","o","c","x">>, <<"t","x","t">>, <<"j","s","o","n">> }

\* allowedTypes.test(s): some alternative occurs somewhere in s
AllowedTypesTest(s) ==
    \E p \in AllowedTypes : Contains(s, p)

\* a mutant of FileFilter: the MIME type alone decides
FileFilterMimeOnly(file) ==
    AllowedTypesTest(file.mimetype)

\* fileFilter: TRUE for cb(null, true), FALSE for cb(new Error('Invalid file type'))
FileFilter(file) ==
    LET extname  == AllowedTypesTest(ToLowerCase(Extname(file.originalname)))
        mimetype == AllowedTypesTest(file.mimetype)
    IN  mimetype /\ extname

\* storage.filename: fieldname + '-' + Date.now() + '-' + random + extname
StorageFilename(fieldname, file, t, rnd) ==
    fieldname \o <<"-">> \o ToStr(t) \o <<"-">> \o ToStr(rnd)
        \o Extname(file.originalname)

\* the errors a request can be aborted with
NoError ==
    [kind |-> "none"]
InvalidTypeError ==
    [kind |-> "Error", message |-> MsgInvalidFileType]
FileSizeError ==
    [kind |-> "MulterError", code |-> "LIMIT_FILE_SIZE", message |-> MsgFileTooLarge]

\* disk d without the files named in names
Remove(d, names) ==
    [n \in (DOMAIN d) \ names |-> d[n]]

\* disk d with file n holding bytes b (an existing file n is overwritten)
WriteFile(d, n, b) ==
    [m \in (DOMAIN d) \cup {n} |-> IF m = n THEN b ELSE d[m]]

\* multer's handling of the file parts of one request, in order: the file
\* filter, then the disk storage under the limits; the first failing part
\* aborts the request and the files stored for it are removed
RECURSIVE Multer(_, _, _, _, _, _)
Multer(fieldname, parts, rnds, t, d, stored) ==
    IF Len(parts) = 0
    THEN [error |-> NoError, files |-> stored, disk |-> d]
    ELSE LET part == Head(parts)
             name == StorageFilename(fieldname, part, t, Head(rnds))
             removed == Remove(d, {stored[i].filename : i \in 1..Len(stored)})
         IN  IF ~FileFilter(part)
             THEN [error |-> InvalidTypeError, files |-> <<>>, disk |-> removed]
             ELSE IF part.size > FileSizeLimit
             THEN [error |-> FileSizeError, files |-> <<>>, disk |-> removed]
             ELSE Multer(fieldname, Tail(parts), Tail(rnds), t,
                         WriteFile(d, name, part.data),
                         Append(stored,
                                [fieldname    |-> fieldname,
                                 originalname |-> part.originalname,
                                 mimetype     |-> part.mimetype,
                                 size         |-> part.size,
                                 filename     |-> name,
                                 path         |-> name]))

\* the error handling middleware: status and body for an error passed to next()
ErrorMiddleware(error) ==
    IF error.kind = "MulterError" /\ error.code = "LIMIT_FILE_SIZE"
    THEN [status |-> 400, error |-> MsgFileTooLarge]
    ELSE [status |-> 500, error |-> error.message]

-----------------------------------------------------------------------------
(* Inputs of the model *)

\* bytes of the uploaded files: 'M' and 'Man'
DataM ==
    <<77>>
DataMan ==
    <<77, 97, 110>>

Part(name, mime, size, data) ==
    [originalname |-> name, mimetype |-> mime, size |-> size, data |-> data]

\* original file names: a.<ext> for each listed extension, and others
UploadNames ==
    { <<"a",".","j","p","e","g">>, <<"a",".","j","p","g">>, <<"a",".","p","n","g">>, <<"a",".","g","i","f">>, <<"a",".","p","d","f">>, <<"a",".","d","o","c">>,
      <<"a",".","d","o","c","x">>, <<"a",".","t","x","t">>, <<"a",".","j","s","o","n">>, <<"a",".","e","x","e">>, <<"A",".","P","N","G">>, <<"R","E","A","D","M","E">> }

UploadMimes ==
    { ImageJpeg, ImagePng, ImageGif, ApplicationPdf, ApplicationMsword,
      ApplicationDocx, TextPlain, ApplicationJson, OctetStream, TextHtml }

\* the file parts submitted to /upload: every name with every MIME type, and
\* files at and above the size limit
UploadPool ==
    { Part(n, m, 1, DataM) : n \in UploadNames, m \in UploadMimes }
    \cup { Part(<<"a",".","p","n","g">>, ImagePng, FileSizeLimit, DataM),
           Part(<<"a",".","p","n","g">>, ImagePng, FileSizeLimit + 1, DataM),
           Part(<<"a",".","e","x","e">>, OctetStream, FileSizeLimit + 1, DataM) }

\* the file parts submitted to the routes taking several files
SmallPool ==
    { Part(<<"a",".","p","n","g">>, ImagePng, 1, DataM),
      Part(<<"b",".","p","d","f">>, ApplicationPdf, 3, DataMan),
      Part(<<"c",".","j","s","o","n">>, ApplicationJson, 1, DataM),
      Part(<<"d",".","p","n","g">>, ImagePng, FileSizeLimit + 1, DataM),
      Part(<<"e",".","e","x","e">>, OctetStream, 1, DataM) }

\* the sequences of at most n elements of S
SeqsUpTo(S, n) ==
    UNION { [1..k -> S] : k \in 0..n }

-----------------------------------------------------------------------------
(* The upload routes *)

\* no response sent yet
NoResponse ==
    [route |-> "none", req |-> <<>>, status |-> 0, error |-> Undefined,
     body |-> <<>>, calls |-> <<>>]

\* a response sent: the route and the request it answers, the status, the
\* error member of the body (Undefined when it has none), the other members,
\* and the upstream requests issued while the request was handled
Response(route, req, status, error, body, calls) ==
    [route |-> route, req |-> req, status |-> status, error |-> error,
     body |-> body, calls |-> calls]

\* app.post('/upload', upload.single('file'), ...)
UploadSingle(pool) ==
    \E parts \in {<<>>} \cup { <<p>> : p \in pool }, rnd \in 0..MaxRnd :
        \E m \in {Multer(FieldFile, parts, <<rnd>>, now, disk, <<>>)} :
            /\ disk' = m.disk
            /\ res' =
                 IF m.error.kind # "none"
                 THEN LET e == ErrorMiddleware(m.error)
                      IN  Response("/upload", parts, e.status, e.error, <<>>, <<>>)
                 ELSE IF Len(m.files) = 0
                 THEN Response("/upload", parts, 400, MsgNoFile, <<>>, <<>>)
                 ELSE Response("/upload", parts, 200, Undefined,
                               [filename     |-> m.files[1].filename,
                                originalName |-> m.files[1].originalname,
                                size         |-> m.files[1].size,
                                path         |-> m.files[1].path], <<>>)
            /\ UNCHANGED <<apiKey, baseURL, env, now, batch>>

\* app.post('/upload-multiple', upload.array('files', 10), ...)
UploadMultiple(pool) ==
    \E parts \in SeqsUpTo(pool, MaxFiles) :
      \E rnds \in [1..Len(parts) -> 0..MaxRnd] :
        \E m \in {Multer(FieldFiles, parts, rnds, now, disk, <<>>)} :
            /\ disk' = m.disk
            /\ res' =
                 IF m.error.kind # "none"
                 THEN LET e == ErrorMiddleware(m.error)
                      IN  Response("/upload-multiple", parts, e.status, e.error, <<>>, <<>>)
                 ELSE IF Len(m.files) = 0
                 THEN Response("/upload-multiple", parts, 400, MsgNoFiles, <<>>, <<>>)
                 ELSE Response("/upload-multiple", parts, 200, Undefined,
                               [files |-> [i \in 1..Len(m.files) |->
                                   [filename     |-> m.files[i].filename,
                                    originalName |-> m.files[i].originalname,
                                    size         |-> m.files[i].size,
                                    path         |-> m.files[i].path]]], <<>>)
            /\ UNCHANGED <<apiKey, baseURL, env, now, batch>>

\* the clock advances
Tick ==
    /\ now < MaxNow
    /\ now' = now + 1
    /\ UNCHANGED <<apiKey, baseURL, env, disk, batch, res>>

-----------------------------------------------------------------------------
(* The relay: class OpenRouterAPI *)

DefaultBaseURL ==
    <<"h","t","t","p","s",":","/","/","o","p","e","n","r","o","u","t","e","r",".","a","i","/","a","p","i","/","v","1">>
AltBaseURL ==
    <<"h","t","t","p","s",":","/","/","p","r","o","x","y",".","t","e","s","t","/","v","1">>
DefaultReferer ==
    <<"h","t","t","p",":","/","/","l","o","c","a","l","h","o","s","t",":","3","0","0","0">>
AltReferer ==
    <<"h","t","t","p","s",":","/","/","a","p","p",".","t","e","s","t">>
ModelsPath ==
    <<"/","m","o","d","e","l","s">>
ChatPath ==
    <<"/","c","h","a","t","/","c","o","m","p","l","e","t","i","o","n","s">>

\* API keys the model uses
KeyPrefix ==
    <<"s","k","-","o","r","-">>
KeyA ==
    <<"s","k","-","o","r","-","x","x","x","x","x","x","x","x","x","x","x","x","x","x","x","x","x","x","x","x","x","x","x">>
KeyB ==
    <<"s","k","-","o","r","-","y","y","y","y","y","y","y","y","y","y","y","y","y","y","y","y","y","y","y","y","y","y","y">>
KeyShort ==
    <<"a","b","c">>

\* a JSON array of 21 numbers sent as apiKey: truthy, of length 21, with no
\* startsWith method
KeyArray ==
    <<"[1,2,3,4,5,6,7,8,9,10,11,12,13,14,15,16,17,18,19,20,21]">>
\* keys of 20 and 21 characters with the prefix, and a long key without it
Key20 ==
    <<"s","k","-","o","r","-","z","z","z","z","z","z","z","z","z","z","z","z","z","z">>
Key21 ==
    <<"s","k","-","o","r","-","z","z","z","z","z","z","z","z","z","z","z","z","z","z","z">>
KeyNoPrefix ==
    <<"s","k","-","x","x","-","x","x","x","x","x","x","x","x","x","x","x","x","x","x","x","x","x","x","x","x","x","x","x">>
MsgNotAFunction ==
    <<"a","p","i","K","e","y",".","s","t","a","r","t","s","W","i","t","h"," ","i","s"," ","n","o","t"," ","a"," ","f","u","n","c","t","i","o","n">>

\* model identifiers the model uses
ModelA ==
    <<"o","p","e","n","a","i","/","g","p","t","-","4","o">>

MsgKeyChat ==
    <<"A","P","I"," ","k","e","y"," ","i","s"," ","r","e","q","u","i","r","e","d"," ","f","o","r"," ","c","h","a","t"," ","c","o","m","p","l","e","t","i","o","n">>
MsgModelChat ==
    <<"M","o","d","e","l"," ","i","s"," ","r","e","q","u","i","r","e","d"," ","f","o","r"," ","c","h","a","t"," ","c","o","m","p","l","e","t","i","o","n">>
MsgKeyModels ==
    <<"A","P","I"," ","k","e","y"," ","i","s"," ","r","e","q","u","i","r","e","d"," ","t","o"," ","f","e","t","c","h"," ","m","o","d","e","l","s">>
UnsupportedPrefix ==
    <<"U","n","s","u","p","p","o","r","t","e","d"," ","f","i","l","e"," ","t","y","p","e",":"," ">>
HttpPrefix ==
    <<"H","T","T","P"," ">>
DocumentPdf ==
    <<"d","o","c","u","m","e","n","t",".","p","d","f">>
BearerPrefix ==
    <<"B","e","a","r","e","r"," ">>
ImageSlash ==
    <<"i","m","a","g","e","/">>

\* the first line of the fixed extraction instructions
BaseInstructions ==
    <<"Y","o","u"," ","a","r","e"," ","a"," ","d","a","t","a"," ","e","x","t","r","a","c","t","i","o","n"," ","e","x","p","e","r","t",".">>
AdditionalHeader ==
    <<"\n", "\n">> \o <<"A","D","D","I","T","I","O","N","A","L"," ","I","N","S","T","R","U","C","T","I","O","N","S"," ","F","R","O","M"," ","U","S","E","R",":">> \o <<"\n">>

\* results of a call: a returned value or a thrown Error
Return(v) ==
    [ok |-> TRUE, value |-> v]
Throw(message) ==
    [ok |-> FALSE, error |-> message]

\* OpenRouterAPI.validateApiKey
ValidateApiKey(k) ==
    /\ Truthy(k)
    /\ Len(k) > 20
    /\ StartsWith(k, KeyPrefix)

\* the call OpenRouterAPI.validateApiKey(apiKey) of the configuration route:
\* the value of the && chain, or the TypeError of calling startsWith on a
\* value that has a length above 20 and is not a string
ValidateApiKeyCall(k) ==
    IF k = KeyArray
    THEN Throw(MsgNotAFunction)
    ELSE Return(ValidateApiKey(k))

\* a mutant of BuildMultimodalContent: every type but PDF is taken for an image
BuildMultimodalContentNoCheck(fileContent, fileType, customPrompt) ==
    Return(<< [type |-> "text", text |-> BaseInstructions],
              [type |-> "file",
               file |-> [filename  |-> IF fileType = ApplicationPdf
                                       THEN DocumentPdf
                                       ELSE <<"i","m","a","g","e",".">> \o SplitSlash1(fileType),
                         file_data |-> <<"d","a","t","a",":">> \o fileType \o <<";","b","a","s","e","6","4",",">>
                                           \o fileContent]] >>)

\* OpenRouterAPI._buildMultimodalContent
BuildMultimodalContent(fileContent, fileType, customPrompt) ==
    LET finalPrompt ==
            IF Truthy(customPrompt)
            THEN BaseInstructions \o AdditionalHeader \o customPrompt
            ELSE BaseInstructions
        Content(filename, dataUrl) ==
            << [type |-> "text", text |-> finalPrompt],
               [type |-> "file",
                file |-> [filename |-> filename, file_data |-> dataUrl]] >>
    IN  IF fileType = ApplicationPdf
        THEN Return(Content(DocumentPdf,
                            <<"d","a","t","a",":","a","p","p","l","i","c","a","t","i","o","n","/","p","d","f",";","b","a","s","e","6","4",",">> \o fileContent))
        ELSE IF StartsWith(fileType, ImageSlash)
        THEN Return(Content(<<"i","m","a","g","e",".">> \o SplitSlash1(fileType),
                            <<"d","a","t","a",":">> \o fileType \o <<";","b","a","s","e","6","4",",">> \o fileContent))
        ELSE Throw(UnsupportedPrefix \o fileType)

\* a mutant of ChatRequest: the default base URL is used whatever was configured
ChatRequestDefaultBase(key, base, model, content, priority) ==
    [method  |-> "POST",
     url     |-> DefaultBaseURL \o ChatPath,
     headers |-> [Authorization |-> BearerPrefix \o key,
                  HTTPReferer   |-> OrElse(env.HTTP_REFERER, DefaultReferer)],
     body    |-> [model       |-> model,
                  messages    |-> << [role |-> "user", content |-> content] >>,
                  max_tokens  |-> 4000,
                  stream      |-> FALSE,
                  provider    |-> <<"sort", "latency">>]]

\* the request chatCompletion passes to fetch: the URL, the headers and the
\* request body (provider.sort is 'latency' when options.priority is)
ChatRequest(key, base, model, content, priority) ==
    [method  |-> "POST",
     url     |-> base \o ChatPath,
     headers |-> [Authorization |-> BearerPrefix \o key,
                  HTTPReferer   |-> OrElse(env.HTTP_REFERER, DefaultReferer)],
     body    |-> [model       |-> model,
                  messages    |-> << [role |-> "user", content |-> content] >>,
                  max_tokens  |-> 4000,
                  stream      |-> FALSE,
                  provider    |-> IF priority = "latency"
                                  THEN <<"sort", "latency">>
                                  ELSE <<>>]]

\* a mutant of ChatCompletionStart: the API key is not checked
ChatCompletionStartNoKeyCheck(key, base, model, content, priority) ==
    IF ~Truthy(model)
    THEN [issued |-> FALSE, error |-> MsgModelChat]
    ELSE [issued |-> TRUE, request |-> ChatRequest(key, base, model, content, priority)]

\* OpenRouterAPI.chatCompletion up to the call of fetch: either an Error is
\* thrown and nothing is sent, or the request is issued
ChatCompletionStart(key, base, model, content, priority) ==
    IF ~Truthy(key)
    THEN [issued |-> FALSE, error |-> MsgKeyChat]
    ELSE IF ~Truthy(model)
    THEN [issued |-> FALSE, error |-> MsgModelChat]
    ELSE [issued |-> TRUE, request |-> ChatRequest(key, base, model, content, priority)]

\* OpenRouterAPI.processFile up to the call of fetch
ProcessFileStart(key, base, model, fileContent, fileType, customPrompt) ==
    LET built == BuildMultimodalContent(fileContent, fileType, customPrompt)
    IN  IF ~built.ok
        THEN [issued |-> FALSE, error |-> built.error]
        ELSE ChatCompletionStart(key, base, model, built.value, "latency")

-----------------------------------------------------------------------------
(* Upstream responses *)

\* a body that is not JSON: response.json() rejects
JsonInvalid ==
    [type |-> "invalid"]
\* the JSON value null
JsonNull ==
    [type |-> "null"]
\* a JSON string
JsonString(s) ==
    [type |-> "string", value |-> s]
\* a JSON object with the members the relay looks at: choices (each choice
\* given by its message.content, Undefined when it has none), output.text,
\* content, error.message and message
JsonObject(hasChoices, choices, hasOutput, outputText, content, hasError, errorMessage, message) ==
    [type |-> "object", hasChoices |-> hasChoices, choices |-> choices,
     hasOutput |-> hasOutput, outputText |-> outputText, content |-> content,
     hasError |-> hasError, errorMessage |-> errorMessage, message |-> message]

\* fetch resolves with a response, or rejects
HttpResponse(status, statusText, data) ==
    [type |-> "response", status |-> status, statusText |-> statusText,
     data |-> data]
FetchFailed(message) ==
    [type |-> "failed", message |-> message]

MsgInvalidJson ==
    <<"i","n","v","a","l","i","d"," ","j","s","o","n"," ","r","e","s","p","o","n","s","e"," ","b","o","d","y">>
MsgNullProperty ==
    <<"C","a","n","n","o","t"," ","r","e","a","d"," ","p","r","o","p","e","r","t","i","e","s"," ","o","f"," ","n","u","l","l">>
MsgNetwork ==
    <<"r","e","q","u","e","s","t"," ","t","o"," ","u","p","s","t","r","e","a","m"," ","f","a","i","l","e","d">>
MsgRateLimited ==
    <<"r","a","t","e"," ","l","i","m","i","t","e","d">>
MsgOverloaded ==
    <<"o","v","e","r","l","o","a","d","e","d">>

Quote(s) ==
    <<"\"">> \o s \o <<"\"">>

\* JSON.stringify(data) for an object that reaches the fallback (its choices,
\* when present, are an empty array)
Stringify(data) ==
    LET members ==
            (IF data.hasChoices THEN << <<"\"","c","h","o","i","c","e","s","\"",":","[","]">> >> ELSE <<>>)
         \o (IF data.hasOutput
             THEN << <<"\"","o","u","t","p","u","t","\"",":","{">>
                     \o (IF data.outputText = Undefined THEN Empty
                         ELSE <<"\"","t","e","x","t","\"",":">> \o Quote(data.outputText))
                     \o <<"}">> >>
             ELSE <<>>)
         \o (IF data.content = Undefined THEN <<>>
             ELSE << <<"\"","c","o","n","t","e","n","t","\"",":">> \o Quote(data.content) >>)
         \o (IF data.hasError
             THEN << <<"\"","e","r","r","o","r","\"",":","{">>
                     \o (IF data.errorMessage = Undefined THEN Empty
                         ELSE <<"\"","m","e","s","s","a","g","e","\"",":">> \o Quote(data.errorMessage))
                     \o <<"}">> >>
             ELSE <<>>)
         \o (IF data.message = Undefined THEN <<>>
             ELSE << <<"\"","m","e","s","s","a","g","e","\"",":">> \o Quote(data.message) >>)
    IN  <<"{">> \o Join(members, <<",">>) \o <<"}">>

\* response.ok
Ok(response) ==
    response.status >= 200 /\ response.status <= 299

\* the message chatCompletion throws for a response that is not ok
ErrorMessage(response) ==
    LET generic == HttpPrefix \o ToStr(response.status) \o <<":", " ">>
                       \o response.statusText
        data == response.data
    IN  IF data.type # "object"
        THEN generic
        ELSE OrElse(IF data.hasError THEN data.errorMessage ELSE Undefined,
                    OrElse(data.message, generic))

\* the response unwrapping of chatCompletion, for parsed data that is a string
\* or an object
Unwrap(data) ==
    IF data.type = "string"
    THEN data.value
    ELSE IF data.hasChoices /\ Len(data.choices) > 0
    THEN Join(SelectSeq(data.choices, Truthy), <<"\n">>)
    ELSE IF data.hasOutput /\ Truthy(data.outputText)
    THEN data.outputText
    ELSE IF Truthy(data.content)
    THEN data.content
    ELSE Stringify(data)

\* a mutant of ChatCompletionFinish: a response that is not ok is unwrapped
\* like any other
ChatCompletionFinishIgnoreStatus(response) ==
    IF response.type = "failed" \/ response.data.type \in {"invalid", "null"}
    THEN Throw(MsgNetwork)
    ELSE Return(Unwrap(response.data))

\* OpenRouterAPI.chatCompletion from the settling of fetch on
ChatCompletionFinish(response) ==
    IF response.type = "failed"
    THEN Throw(response.message)
    ELSE IF ~Ok(response)
    THEN Throw(ErrorMessage(response))
    ELSE IF response.data.type = "invalid"
    THEN Throw(MsgInvalidJson)
    ELSE IF response.data.type = "null"
    THEN Throw(MsgNullProperty)
    ELSE Return(Unwrap(response.data))

-----------------------------------------------------------------------------
(* The configuration and processing routes *)

\* a mutant of PostConfig: the base URL and the referer are written before
\* the key is validated
PostConfigUrlFirst(keys, urls, referers) ==
    \E k \in keys, u \in urls, r \in referers :
        LET req == [apiKey |-> k, baseUrl |-> u, httpReferer |-> r]
            ok  == k = Undefined \/ (ValidateApiKeyCall(k).ok /\ ValidateApiKey(k))
            e   == [OPENROUTER_API_KEY  |-> IF k # Undefined /\ ok THEN k
                                            ELSE env.OPENROUTER_API_KEY,
                    OPENROUTER_BASE_URL |-> IF Truthy(u) THEN u
                                            ELSE env.OPENROUTER_BASE_URL,
                    HTTP_REFERER        |-> IF Truthy(r) THEN r
                                            ELSE env.HTTP_REFERER]
        IN  /\ env' = e
            /\ apiKey' = IF k # Undefined /\ ok THEN k ELSE apiKey
            /\ baseURL' = IF Truthy(u) THEN u ELSE baseURL
            /\ res' = IF ok
                      THEN Response("/api/config", req, 200, Undefined,
                                    [hasApiKey   |-> Truthy(e.OPENROUTER_API_KEY),
                                     baseUrl     |-> e.OPENROUTER_BASE_URL,
                                     httpReferer |-> e.HTTP_REFERER], <<>>)
                      ELSE Response("/api/config", req, 400, MsgInvalidKey, <<>>, <<>>)
            /\ UNCHANGED <<now, disk, batch>>

\* app.post('/api/config', ...)
PostConfig(keys, urls, referers) ==
    \E k \in keys, u \in urls, r \in referers :
        LET req == [apiKey |-> k, baseUrl |-> u, httpReferer |-> r]
        IN  IF k # Undefined /\ ~ValidateApiKeyCall(k).ok
            THEN /\ res' = Response("/api/config", req, 500,
                                    ValidateApiKeyCall(k).error, <<>>, <<>>)
                 /\ UNCHANGED <<apiKey, baseURL, env, now, disk, batch>>
            ELSE IF k # Undefined /\ ~ValidateApiKey(k)
            THEN /\ res' = Response("/api/config", req, 400, MsgInvalidKey, <<>>, <<>>)
                 /\ UNCHANGED <<apiKey, baseURL, env, now, disk, batch>>
            ELSE LET e == [OPENROUTER_API_KEY  |-> IF k # Undefined THEN k
                                                   ELSE env.OPENROUTER_API_KEY,
                           OPENROUTER_BASE_URL |-> IF Truthy(u) THEN u
                                                   ELSE env.OPENROUTER_BASE_URL,
                           HTTP_REFERER        |-> IF Truthy(r) THEN r
                                                   ELSE env.HTTP_REFERER]
                 IN  /\ env' = e
                     /\ apiKey' = IF k # Undefined THEN k ELSE apiKey
                     /\ baseURL' = IF Truthy(u) THEN u ELSE baseURL
                     /\ res' = Response("/api/config", req, 200, Undefined,
                                        [hasApiKey   |-> Truthy(e.OPENROUTER_API_KEY),
                                         baseUrl     |-> e.OPENROUTER_BASE_URL,
                                         httpReferer |-> e.HTTP_REFERER], <<>>)
                     /\ UNCHANGED <<now, disk, batch>>

\* app.get('/api/config', ...)
GetConfig ==
    /\ res' = Response("GET /api/config", <<>>, 200, Undefined,
                       [hasApiKey   |-> Truthy(env.OPENROUTER_API_KEY),
                        baseUrl     |-> env.OPENROUTER_BASE_URL,
                        httpReferer |-> env.HTTP_REFERER], <<>>)
    /\ UNCHANGED <<apiKey, baseURL, env, now, disk, batch>>

\* the request fetchModels passes to fetch
ModelsRequest(key, base) ==
    [method  |-> "GET",
     url     |-> base \o ModelsPath,
     headers |-> [Authorization |-> BearerPrefix \o key]]

\* OpenRouterAPI.fetchModels up to the call of fetch
FetchModelsStart(key, base) ==
    IF ~Truthy(key)
    THEN [issued |-> FALSE, error |-> MsgKeyModels]
    ELSE [issued |-> TRUE, request |-> ModelsRequest(key, base)]

\* OpenRouterAPI.fetchModels from the settling of fetch on; the returned list
\* of models is not looked into
FetchModelsFinish(response) ==
    IF response.type = "failed"
    THEN Throw(response.message)
    ELSE IF response.data.type = "invalid"
    THEN Throw(MsgInvalidJson)
    ELSE IF response.data.type = "null"
    THEN Throw(MsgNullProperty)
    ELSE IF ~Ok(response)
    THEN Throw(OrElse(IF response.data.type = "object" /\ response.data.hasError
                      THEN response.data.errorMessage ELSE Undefined,
                      HttpPrefix \o ToStr(response.status) \o <<":", " ">>
                          \o response.statusText))
    ELSE Return(<<>>)

\* app.get('/api/models', ...)
GetModels(responses) ==
    \E response \in responses :
        LET start == FetchModelsStart(apiKey, baseURL)
            fin   == FetchModelsFinish(response)
        IN  /\ res' =
                 IF ~start.issued
                 THEN Response("/api/models", <<>>, 500, start.error, <<>>, <<>>)
                 ELSE IF ~fin.ok
                 THEN Response("/api/models", <<>>, 500, fin.error, <<>>,
                               <<start.request>>)
                 ELSE Response("/api/models", <<>>, 200, Undefined, <<>>,
                               <<start.request>>)
            /\ UNCHANGED <<apiKey, baseURL, env, now, disk, batch>>

\* app.post('/api/process-file', ...)
ProcessFileRoute(models, contents, types, prompts, responses) ==
    \E model \in models, fileContent \in contents, fileType \in types,
       customPrompt \in prompts, response \in responses :
        LET req == [model |-> model, fileContent |-> fileContent,
                    fileType |-> fileType, customPrompt |-> customPrompt,
                    response |-> response]
            start == ProcessFileStart(apiKey, baseURL, model, fileContent,
                                      fileType, customPrompt)
            fin   == ChatCompletionFinish(response)
        IN  /\ res' =
                 IF ~Truthy(model) \/ ~Truthy(fileContent) \/ ~Truthy(fileType)
                 THEN Response("/api/process-file", req, 400, MsgMissingParams,
                               <<>>, <<>>)
                 ELSE IF ~start.issued
                 THEN Response("/api/process-file", req, 500, start.error,
                               <<>>, <<>>)
                 ELSE IF ~fin.ok
                 THEN Response("/api/process-file", req, 500, fin.error, <<>>,
                               <<start.request>>)
                 ELSE Response("/api/process-file", req, 200, Undefined,
                               [success |-> TRUE, result |-> fin.value],
                               <<start.request>>)
            /\ UNCHANGED <<apiKey, baseURL, env, now, disk, batch>>

-----------------------------------------------------------------------------
(* POST /api/process-uploaded-files *)

MsgENOENT ==
    <<"E","N","O","E","N","T",":"," ","n","o"," ","s","u","c","h"," ","f","i","l","e"," ","o","r"," ","d","i","r","e","c","t","o","r","y">>
MsgEACCES ==
    <<"E","A","C","C","E","S",":"," ","p","e","r","m","i","s","s","i","o","n"," ","d","e","n","i","e","d">>
MsgEPERM ==
    <<"E","P","E","R","M",":"," ","o","p","e","r","a","t","i","o","n"," ","n","o","t"," ","p","e","r","m","i","t","t","e","d">>

\* no batch request has been received
Idle ==
    [pc |-> "idle", files |-> <<>>, delFailed |-> FALSE]

\* fs.readFileSync(path): the bytes, or a thrown Error when the file is gone or
\* the file system faults
ReadFileSync(d, path, fault) ==
    IF path \notin DOMAIN d THEN Throw(MsgENOENT)
    ELSE IF fault THEN Throw(MsgEACCES)
    ELSE Return(d[path])

\* fs.unlinkSync(path): the disk without the file, or a thrown Error when the
\* file is gone or the file system faults
UnlinkSync(d, path, fault) ==
    IF path \notin DOMAIN d THEN Throw(MsgENOENT)
    ELSE IF fault THEN Throw(MsgEPERM)
    ELSE Return(Remove(d, {path}))

\* what processing a file came to: the upstream response received (NoFetch
\* when no request was issued) and what readFileSync and processFile returned
\* or threw
NoFetch ==
    [type |-> "none"]
Outcome(response, result) ==
    [response |-> response, result |-> result]

\* the entries pushed to results
SuccessEntry(file, aiResponse) ==
    [fileName |-> file.originalname, fileSize |-> file.size,
     fileType |-> file.mimetype, success |-> TRUE, result |-> aiResponse]
FailureEntry(file, message) ==
    [fileName |-> file.originalname, fileSize |-> file.size,
     fileType |-> file.mimetype, success |-> FALSE, error |-> message]

\* the res.json(...) that ends the loop
BatchResponse(b) ==
    Response("/api/process-uploaded-files", b.req, 200, Undefined,
             [success        |-> TRUE,
              totalFiles     |-> Len(b.files),
              processedFiles |-> Len(b.results),
              results        |-> b.results],
             b.calls)

\* the end of one iteration of the loop: the next file, or the response
NextFile(b, d) ==
    /\ disk' = d
    /\ IF b.i = Len(b.files)
       THEN /\ batch' = [b EXCEPT !.pc = "done", !.response = BatchResponse(b)]
            /\ res' = BatchResponse(b)
       ELSE /\ batch' = [b EXCEPT !.pc = "processing", !.i = b.i + 1]
            /\ UNCHANGED res

\* a mutant of CatchBlock: a failed file is tried again
CatchBlockRetry(b, d, message, fault) ==
    /\ batch' = [b EXCEPT !.results = Append(@, FailureEntry(b.files[b.i], message)),
                          !.pc = "processing"]
    /\ disk' = d
    /\ UNCHANGED res

\* the catch block of the loop: the failure entry, then the guarded unlink
CatchBlock(b, d, message, fault) ==
    LET file == b.files[b.i]
        un   == UnlinkSync(d, file.path, fault)
        b1   == [b EXCEPT !.results = Append(@, FailureEntry(file, message)),
                          !.delFailed = @ \/ ~un.ok]
    IN  NextFile(b1, IF un.ok THEN un.value ELSE d)

\* the rest of the try block once processFile has returned: the success entry,
\* then the unlink, whose Error the catch block receives
AfterSuccess(b, d, aiResponse, fault1, fault2) ==
    LET file == b.files[b.i]
        b1   == [b EXCEPT !.results = Append(@, SuccessEntry(file, aiResponse))]
        un   == UnlinkSync(d, file.path, fault1)
    IN  IF un.ok
        THEN NextFile(b1, un.value)
        ELSE CatchBlock([b1 EXCEPT !.delFailed = TRUE], d, un.error, fault2)

\* the request arrives: multer stores the files, then the handler checks the
\* model and the files and enters the loop
BatchRequest(models, pool) ==
    /\ batch.pc = "idle"
    /\ \E model \in models, parts \in SeqsUpTo(pool, MaxFiles) :
      \E rnds \in [1..Len(parts) -> 0..MaxRnd] :
       \E m \in {Multer(FieldFiles, parts, rnds, now, disk, <<>>)} :
        LET req == [model |-> model, parts |-> parts]
            rejected(r) ==
                /\ batch' = [pc |-> "done", req |-> req, files |-> m.files,
                             delFailed |-> FALSE, response |-> r]
                /\ res' = r
        IN  /\ disk' = m.disk
            /\ IF m.error.kind # "none"
               THEN LET e == ErrorMiddleware(m.error)
                    IN  rejected(Response("/api/process-uploaded-files", req,
                                          e.status, e.error, <<>>, <<>>))
               ELSE IF ~Truthy(model)
               THEN rejected(Response("/api/process-uploaded-files", req, 400,
                                      MsgMissingModel, <<>>, <<>>))
               ELSE IF Len(m.files) = 0
               THEN rejected(Response("/api/process-uploaded-files", req, 400,
                                      MsgNoFiles, <<>>, <<>>))
               ELSE /\ batch' = [pc |-> "processing", req |-> req,
                                 model |-> model, customPrompt |-> Undefined,
                                 files |-> m.files, i |-> 1, results |-> <<>>,
                                 outcomes |-> <<>>, calls |-> <<>>,
                                 delFailed |-> FALSE, response |-> NoResponse]
                    /\ UNCHANGED res
            /\ UNCHANGED <<apiKey, baseURL, env, now>>

\* one iteration of the loop up to the await of processFile: the file is read
\* and encoded and the request is built; the upstream request is issued, or an
\* Error is thrown and the catch block handles it (faults: whether the file
\* system may fail the read and the delete)
BatchProcessFile(faults) ==
    \E readFault \in faults, unlinkFault \in faults :
        LET file  == batch.files[batch.i]
            read  == ReadFileSync(disk, file.path, readFault)
            start == ProcessFileStart(apiKey, baseURL, batch.model,
                                      Base64(read.value), file.mimetype,
                                      batch.customPrompt)
        IN  /\ batch.pc = "processing"
            /\ IF ~read.ok
               THEN CatchBlock([batch EXCEPT !.outcomes = Append(@, Outcome(NoFetch, Throw(read.error)))],
                               disk, read.error, unlinkFault)
               ELSE IF ~start.issued
               THEN CatchBlock([batch EXCEPT !.outcomes = Append(@, Outcome(NoFetch, Throw(start.error)))],
                               disk, start.error, unlinkFault)
               ELSE /\ batch' = [batch EXCEPT !.pc = "awaiting",
                                              !.calls = Append(@, start.request)]
                    /\ UNCHANGED <<disk, res>>
            /\ UNCHANGED <<apiKey, baseURL, env, now>>

\* the upstream call of the current file settles: the rest of the iteration
\* (faults: whether the file system may fail the deletes)
BatchFetchSettles(responses, faults) ==
    \E response \in responses, fault1 \in faults, fault2 \in faults :
        LET fin == ChatCompletionFinish(response)
            b   == [batch EXCEPT !.outcomes = Append(@, Outcome(response, fin))]
        IN  /\ batch.pc = "awaiting"
            /\ IF fin.ok
               THEN AfterSuccess(b, disk, fin.value, fault1, fault2)
               ELSE CatchBlock(b, disk, fin.error, fault2)
            /\ UNCHANGED <<apiKey, baseURL, env, now>>

-----------------------------------------------------------------------------
(* Inputs of the relay *)

TextA ==
    <<"A">>
TextB ==
    <<"B">>
TextT ==
    <<"T">>
TextX ==
    <<"X">>
StatusOK ==
    <<"O","K">>
StatusTooMany ==
    <<"T","o","o"," ","M","a","n","y"," ","R","e","q","u","e","s","t","s">>
StatusServerError ==
    <<"I","n","t","e","r","n","a","l"," ","S","e","r","v","e","r"," ","E","r","r","o","r">>

\* the choices members of the bodies: absent, empty, with and without contents
ChoicesPool ==
    { <<FALSE, <<>>>>, <<TRUE, <<>>>>, <<TRUE, <<TextA>>>>,
      <<TRUE, <<TextA, TextB>>>>, <<TRUE, <<Undefined>>>>,
      <<TRUE, <<Undefined, TextB>>>>, <<TRUE, <<TextA, Empty, TextB>>>> }

\* the output members: absent, without text, with text
OutputPool ==
    { <<FALSE, Undefined>>, <<TRUE, Undefined>>, <<TRUE, TextT>> }

\* bodies of 2xx responses
Bodies ==
    { JsonObject(c[1], c[2], o[1], o[2], t, FALSE, Undefined, Undefined) :
          c \in ChoicesPool, o \in OutputPool, t \in {Undefined, Empty, TextX} }
    \cup { JsonString(TextA), JsonString(Empty), JsonNull, JsonInvalid }

\* bodies of responses that are not 2xx
ErrorBodies ==
    { JsonObject(FALSE, <<>>, FALSE, Undefined, Undefined, TRUE, MsgRateLimited, Undefined),
      JsonObject(FALSE, <<>>, FALSE, Undefined, Undefined, TRUE, MsgRateLimited, MsgOverloaded),
      JsonObject(FALSE, <<>>, FALSE, Undefined, Undefined, TRUE, Undefined, MsgOverloaded),
      JsonObject(FALSE, <<>>, FALSE, Undefined, Undefined, FALSE, Undefined, MsgOverloaded),
      JsonObject(FALSE, <<>>, FALSE, Undefined, Undefined, TRUE, Empty, Undefined),
      JsonObject(TRUE, <<TextA>>, FALSE, Undefined, TextX, FALSE, Undefined, Undefined),
      JsonString(TextA), JsonNull, JsonInvalid }

\* every response of the relay's inputs
Responses ==
    { HttpResponse(200, StatusOK, d) : d \in Bodies }
    \cup { HttpResponse(204, StatusOK, JsonInvalid),
           HttpResponse(299, StatusOK, JsonString(TextA)),
           HttpResponse(300, StatusOK, JsonString(TextA)),
           HttpResponse(199, StatusOK, JsonString(TextA)) }
    \cup { HttpResponse(429, StatusTooMany, d) : d \in ErrorBodies }
    \cup { HttpResponse(500, StatusServerError, d) : d \in ErrorBodies }
    \cup { FetchFailed(MsgNetwork) }

\* the responses the batch route receives: a completion, an error the body
\* explains, an error with a body that is not JSON
FewResponses ==
    { HttpResponse(200, StatusOK,
          JsonObject(TRUE, <<TextA>>, FALSE, Undefined, Undefined, FALSE, Undefined, Undefined)),
      HttpResponse(429, StatusTooMany,
          JsonObject(FALSE, <<>>, FALSE, Undefined, Undefined, TRUE, MsgRateLimited, Undefined)),
      HttpResponse(500, StatusServerError, JsonInvalid),
      HttpResponse(500, StatusServerError,
          JsonObject(FALSE, <<>>, FALSE, Undefined, Undefined, FALSE, Undefined, Undefined)) }

\* file types handed to /api/process-file
FileTypes ==
    UploadMimes \cup { ImageSvg, ImageSlash, <<"i","m","a","g","e">>, <<"i","m","a","g","e","p","n","g">>,
                       <<"I","M","A","G","E","/","P","N","G">>, <<"a","p","p","l","i","c","a","t","i","o","n","/","p","d","f","2">>, <<"A","p","p","l","i","c","a","t","i","o","n","/","P","D","F">> }

-----------------------------------------------------------------------------
(* Specifications *)

\* the server after construction: the environment may or may not hold an API
\* key and a base URL
Init ==
    /\ env \in [OPENROUTER_API_KEY  : {Undefined, KeyA},
                OPENROUTER_BASE_URL : {Undefined, AltBaseURL},
                HTTP_REFERER        : {Undefined}]
    /\ apiKey = OrElse(env.OPENROUTER_API_KEY, Empty)
    /\ baseURL = OrElse(env.OPENROUTER_BASE_URL, DefaultBaseURL)
    /\ now = 0
    /\ disk = <<>>
    /\ batch = Idle
    /\ res = NoResponse

\* the files submitted to the batch route: an image, a JSON document (accepted
\* by the upload filter, not by the extraction builder)
BatchPool ==
    { Part(<<"a",".","p","n","g">>, ImagePng, 1, DataM),
      Part(<<"c",".","j","s","o","n">>, ApplicationJson, 3, DataMan) }

\* the server: the configuration route, the relay and the batch route handling
\* one request of image files on a file system that does not fail
Next ==
    \/ PostConfig({Undefined, Empty, KeyShort, KeyB}, {Undefined, DefaultBaseURL},
                  {Undefined})
    \/ GetModels({HttpResponse(200, StatusOK, JsonString(TextA))})
    \/ ProcessFileRoute({Empty, ModelA}, {Base64(DataM)}, {ImagePng}, {Undefined},
                        {HttpResponse(200, StatusOK, JsonString(TextA))})
    \/ BatchRequest({ModelA}, {Part(<<"a",".","p","n","g">>, ImagePng, 1, DataM)})
    \/ BatchProcessFile({FALSE})
    \/ BatchFetchSettles({HttpResponse(200, StatusOK, JsonString(TextA))}, {FALSE})

Spec ==
    Init /\ [][Next]_vars

\* the batch route alone, with files of both kinds, every fault of the file
\* system and the responses of FewResponses
NextBatch ==
    \/ BatchRequest({Undefined, ModelA}, BatchPool)
    \/ BatchProcessFile(BOOLEAN)
    \/ BatchFetchSettles(FewResponses, BOOLEAN)

SpecBatch ==
    Init /\ [][NextBatch]_vars

\* the upload routes alone, answering one request, with every file name and
\* MIME type of the pool
NextUpload ==
    \/ res = NoResponse /\ Tick
    \/ res = NoResponse /\ UploadSingle(UploadPool)
    \/ res = NoResponse /\ UploadMultiple(SmallPool)

SpecUpload ==
    Init /\ [][NextUpload]_vars

\* the relay alone, answering one request, with every body and every file
\* type of the pools (its routes change nothing but the response)
NextRelay ==
    \/ res = NoResponse /\ GetModels(Responses)
    \/ res = NoResponse /\ ProcessFileRoute({Undefined, Empty, ModelA}, {Empty, Base64(DataM)},
                        FileTypes, {Undefined, TextX}, Responses)

SpecRelay ==
    Init /\ [][NextRelay]_vars

\* the apiKey members sent to /api/config: none, null, '', strings that fail
\* each part of the format, strings that pass it, and an array
ConfigKeys ==
    { Undefined, Null, Empty, KeyShort, Key20, Key21, KeyNoPrefix, KeyB,
      KeyArray }

\* the configuration routes alone
NextConfig ==
    \/ PostConfig(ConfigKeys, {Undefined, Empty, DefaultBaseURL, AltBaseURL},
                  {Undefined, AltReferer})
    \/ GetConfig

SpecConfig ==
    Init /\ [][NextConfig]_vars

\* the files of the ordering check: an image and a PDF, both supported by the
\* extraction builder and told apart in the requests sent upstream
OrderPool ==
    { Part(<<"a",".","p","n","g">>, ImagePng, 1, DataM),
      Part(<<"b",".","p","d","f">>, ApplicationPdf, 3, DataMan) }

\* the batch route with files that all go upstream: completions, upstream
\* errors and failed fetches, on a file system that may fail
NextOrder ==
    \/ BatchRequest({ModelA}, OrderPool)
    \/ BatchProcessFile(BOOLEAN)
    \/ BatchFetchSettles({ HttpResponse(200, StatusOK, JsonString(TextA)),
                           HttpResponse(429, StatusTooMany, JsonInvalid),
                           FetchFailed(MsgNetwork) }, BOOLEAN)

SpecOrder ==
    Init /\ [][NextOrder]_vars

\* the configuration routes together with one batch request in flight: updates
\* arrive before, between and after the upstream calls of the batch
NextShared ==
    \/ PostConfig({Undefined, KeyShort, KeyB}, {Undefined, Empty, DefaultBaseURL, AltBaseURL},
                  {Undefined})
    \/ GetConfig
    \/ BatchRequest({ModelA}, {Part(<<"a",".","p","n","g">>, ImagePng, 1, DataM)})
    \/ BatchProcessFile({FALSE})
    \/ BatchFetchSettles({HttpResponse(200, StatusOK, JsonString(TextA))}, {FALSE})

SpecShared ==
    Init /\ [][NextShared]_vars

-----------------------------------------------------------------------------
(* Claims about the batch route, checked under SpecBatch *)

\* the batch request was accepted (a model and at least one stored file) and
\* its response has been sent
BatchAnswered ==
    /\ batch.pc = "done"
    /\ batch.response.status = 200

\* the entry the claims give file i of an answered batch: a success entry with
\* the relayed text, or a failure entry with the message of the Error
ClaimedEntry(i) ==
    IF batch.outcomes[i].result.ok
    THEN SuccessEntry(batch.files[i], batch.outcomes[i].result.value)
    ELSE FailureEntry(batch.files[i], batch.outcomes[i].result.error)

\* C1: the response of a batch of N accepted files has totalFiles = N,
\* processedFiles = N and one entry per file, in upload order; a file whose
\* processing failed has success false and an error message, the others
\* success true
C1_OneEntryPerFile ==
    BatchAnswered =>
        LET body == batch.response.body
            N    == Len(batch.files)
        IN  /\ body.totalFiles = N
            /\ body.processedFiles = N
            /\ Len(body.results) = N
            /\ \A i \in 1..N :
                /\ body.results[i].fileName = batch.files[i].originalname
                /\ body.results[i].success = batch.outcomes[i].result.ok
                /\ ~body.results[i].success => Truthy(body.results[i].error)

\* C2: a delete that throws is not surfaced: the response of a batch in which
\* some unlink threw is the response the same outcomes give when every unlink
\* succeeds, one entry per file
C2_DeleteFailureNotSurfaced ==
    (BatchAnswered /\ batch.delFailed) =>
        /\ batch.response.body.processedFiles = Len(batch.files)
        /\ batch.response.body.results
               = [i \in 1..Len(batch.files) |-> ClaimedEntry(i)]

\* C3: once the response is sent and no delete failed, none of the files
\* stored for the request is left in the upload directory
C3_NoFileOutlivesRequest ==
    (batch.pc = "done" /\ ~batch.delFailed) =>
        \A i \in 1..Len(batch.files) : batch.files[i].path \notin DOMAIN disk

\* the message the claim gives the failure for a response that is not 2xx:
\* the upstream error message when the body carries one, a message beginning
\* 'HTTP <status>' otherwise
ClaimedFailureMessage(response, message) ==
    IF response.data.type = "object" /\ response.data.hasError
       /\ Truthy(response.data.errorMessage)
    THEN message = response.data.errorMessage
    ELSE StartsWith(message, HttpPrefix \o ToStr(response.status))

\* C8: a response that is not 2xx makes the call fail with the upstream error
\* message or the generic one; in a batch the failure is the entry of that
\* file, and the file is not sent upstream again
C8_UpstreamFailureIsTerminal ==
    (batch.pc \in {"processing", "done"} /\ batch.response.status \in {0, 200}) =>
        LET n    == Len(batch.outcomes)
            last == batch.outcomes[n]
            e    == batch.results[Len(batch.results)]
        IN  (n > 0 /\ last.response.type = "response" /\ ~Ok(last.response)) =>
                /\ ~last.result.ok
                /\ ClaimedFailureMessage(last.response, last.result.error)
                /\ e = FailureEntry(batch.files[n], last.result.error)
                /\ Len(batch.calls) <= n

\* C8 witness: a file answered 429 'rate limited' has its failure entry
C8_Witness ==
    /\ batch.pc = "done"
    /\ batch.response.status = 200
    /\ Len(batch.outcomes) > 0
    /\ batch.outcomes[1].response.type = "response"
    /\ batch.outcomes[1].response.status = 429
    /\ batch.results[1].success = FALSE
    /\ batch.results[1].error = MsgRateLimited

-----------------------------------------------------------------------------
(* Claims about upload validation, checked under SpecUpload *)

\* a response of /upload to a request that carried one file
UploadAnswered ==
    /\ res.route = "/upload"
    /\ Len(res.req) = 1

\* the kind of file an extension denotes ("none" for an unlisted extension)
ExtKind(name) ==
    LET e == ToLowerCase(Extname(name))
    IN  CASE e \in {<<".","j","p","e","g">>, <<".","j","p","g">>} -> "jpeg"
          [] e = <<".","p","n","g">>  -> "png"
          [] e = <<".","g","i","f">>  -> "gif"
          [] e = <<".","p","d","f">>  -> "pdf"
          [] e = <<".","d","o","c">>  -> "doc"
          [] e = <<".","d","o","c","x">> -> "docx"
          [] e = <<".","t","x","t">>  -> "txt"
          [] e = <<".","j","s","o","n">> -> "json"
          [] OTHER -> "none"

\* the kind of file a MIME type denotes ("none" for an unlisted type)
MimeKind(mime) ==
    CASE mime = ImageJpeg         -> "jpeg"
      [] mime = ImagePng          -> "png"
      [] mime = ImageGif          -> "gif"
      [] mime = ApplicationPdf    -> "pdf"
      [] mime = ApplicationMsword -> "doc"
      [] mime = ApplicationDocx   -> "docx"
      [] mime = TextPlain         -> "txt"
      [] mime = ApplicationJson   -> "json"
      [] OTHER -> "none"

\* the MIME types of the model's inputs in which a word of the allow-list
\* occurs: 'doc' occurs in the type of .docx files ('officedocument'), no
\* listed word occurs in 'text/plain' or 'application/msword'
MimeHasListedWord(mime) ==
    mime \in {ImageJpeg, ImagePng, ImageGif, ApplicationPdf, ApplicationDocx,
              ApplicationJson}

\* C4 as stated: a file whose extension and MIME type denote different kinds
\* of file (or of which only one is listed) is rejected with 'Invalid file
\* type'
C4_DisagreementRejected ==
    (UploadAnswered
        /\ ExtKind(res.req[1].originalname) # MimeKind(res.req[1].mimetype)) =>
        res.error = MsgInvalidFileType

\* C4 amended: the extension and the MIME type are tested separately; a file
\* is rejected with 'Invalid file type' exactly when its extension is not
\* listed or no listed word occurs in its MIME type, and a file passing both
\* tests within the size limit is stored whatever kinds the two denote
C4_SeparateTests ==
    UploadAnswered =>
        LET file   == res.req[1]
            passes == /\ ExtKind(file.originalname) # "none"
                      /\ MimeHasListedWord(file.mimetype)
        IN  /\ (res.error = MsgInvalidFileType) <=> ~passes
            /\ (passes /\ file.size <= FileSizeLimit) => res.status = 200

\* C4 witness: a .png file declared application/pdf has been stored
C4_Witness ==
    /\ UploadAnswered
    /\ ExtKind(res.req[1].originalname) = "png"
    /\ res.req[1].mimetype = ApplicationPdf
    /\ res.status = 200

\* C5: a file with a listed extension, the standard MIME type of that kind
\* of file and a size of at most 10 MiB is accepted and the upload succeeds
C5_AllowListAccepted ==
    (UploadAnswered
        /\ ExtKind(res.req[1].originalname) # "none"
        /\ ExtKind(res.req[1].originalname) = MimeKind(res.req[1].mimetype)
        /\ res.req[1].size <= FileSizeLimit) =>
        /\ res.status = 200
        /\ res.error = Undefined

\* C6: a request rejected for a bad file type, an oversized file or a missing
\* file is answered with status 400
C6_ValidationErrorsAre400 ==
    (res.route \in {"/upload", "/upload-multiple"}
        /\ res.error \in {MsgInvalidFileType, MsgFileTooLarge, MsgNoFile,
                          MsgNoFiles}) =>
        res.status = 400

-----------------------------------------------------------------------------
(* Claims about the relay, checked under SpecRelay and Spec *)

\* a response of /api/process-file to a request that passed the route's own
\* validation
ProcessFileAnswered ==
    /\ res.route = "/api/process-file"
    /\ res.status # 400

\* the text the claim gives for a parsed 2xx body: the contents of the
\* choices joined with newlines (choices without content contribute
\* nothing), else output.text, else content, else the string itself, else the
\* serialization
ClaimedText(data) ==
    IF data.type = "object" /\ data.hasChoices /\ Len(data.choices) > 0
    THEN Join(SelectSeq(data.choices, LAMBDA c : c \notin {Undefined, Empty}),
              <<"\n">>)
    ELSE IF data.type = "object" /\ data.hasOutput
            /\ data.outputText \notin {Undefined, Empty}
    THEN data.outputText
    ELSE IF data.type = "object" /\ data.content \notin {Undefined, Empty}
    THEN data.content
    ELSE IF data.type = "string"
    THEN data.value
    ELSE Stringify(data)

\* C7: every 2xx response is unwrapped by the first matching shape, in the
\* order choices, output.text, content, string, serialization, and the call
\* never fails on a 2xx body
C7_UnwrapNeverFails ==
    (ProcessFileAnswered
        /\ Len(res.calls) = 1
        /\ res.req.response.type = "response"
        /\ Ok(res.req.response)) =>
        /\ res.status = 200
        /\ res.body.result = ClaimedText(res.req.response.data)

\* the file block of the one request issued for the answered request
IssuedContent ==
    res.calls[1].body.messages[1].content

\* C10: for 'application/pdf' the builder returns a text block and a file
\* block named 'document.pdf' with a PDF data URL; for 'image/<sub>' the file
\* block is named 'image.<sub>' with an image data URL; for every other type
\* it fails with an unsupported-file-type error and no request is issued
C10_TwoFamilies ==
    ProcessFileAnswered =>
        LET fileType == res.req.fileType
            payload  == res.req.fileContent
            isImage  == /\ Len(fileType) >= 6
                        /\ SubSeq(fileType, 1, 6) = <<"i","m","a","g","e","/">>
        IN  IF fileType = <<"a","p","p","l","i","c","a","t","i","o","n","/","p","d","f">>
            THEN /\ ~StartsWith(res.error, UnsupportedPrefix)
                 /\ Len(res.calls) = 1 =>
                      /\ Len(IssuedContent) = 2
                      /\ IssuedContent[1].type = "text"
                      /\ IssuedContent[2].type = "file"
                      /\ IssuedContent[2].file.filename = <<"d","o","c","u","m","e","n","t",".","p","d","f">>
                      /\ IssuedContent[2].file.file_data
                             = <<"d","a","t","a",":","a","p","p","l","i","c","a","t","i","o","n","/","p","d","f",";","b","a","s","e","6","4",",">> \o payload
            ELSE IF isImage
            THEN /\ ~StartsWith(res.error, UnsupportedPrefix)
                 /\ Len(res.calls) = 1 =>
                      /\ Len(IssuedContent) = 2
                      /\ IssuedContent[1].type = "text"
                      /\ IssuedContent[2].type = "file"
                      /\ IssuedContent[2].file.filename
                             = <<"i","m","a","g","e",".">> \o SubSeq(fileType, 7, Len(fileType))
                      /\ IssuedContent[2].file.file_data
                             = <<"d","a","t","a",":","i","m","a","g","e","/">> \o SubSeq(fileType, 7, Len(fileType))
                                   \o <<";","b","a","s","e","6","4",",">> \o payload
            ELSE /\ res.status = 500
                 /\ res.error = <<"U","n","s","u","p","p","o","r","t","e","d"," ","f","i","l","e"," ","t","y","p","e",":"," ">> \o fileType
                 /\ res.calls = <<>>

\* C10 witness: a request was issued for an 'image/png' file, its file block
\* named 'image.png'
C10_Witness ==
    /\ ProcessFileAnswered
    /\ res.req.fileType = <<"i","m","a","g","e","/","p","n","g">>
    /\ Len(res.calls) = 1
    /\ IssuedContent[2].file.filename = <<"i","m","a","g","e",".","p","n","g">>

\* the upstream requests issued so far for the last answered request and for
\* the batch
IssuedRequests ==
    {res.calls[i] : i \in 1..Len(res.calls)}
    \cup (IF batch.pc \in {"processing", "awaiting"}
          THEN {batch.calls[i] : i \in 1..Len(batch.calls)}
          ELSE {})

\* C9: with an empty API key fetchModels and chatCompletion fail and issue no
\* request, with an empty model chatCompletion fails and issues no request,
\* and every request issued carries a non-empty key and, for a chat
\* completion, a non-empty model
C9_FailFast ==
    /\ \A r \in IssuedRequests :
        /\ Len(r.headers.Authorization) > Len(<<"B","e","a","r","e","r"," ">>)
        /\ r.method = "POST" => r.body.model \notin {Undefined, Null, Empty}
    /\ (apiKey = Empty /\ res.route = "/api/models") =>
        /\ res.status = 500
        /\ res.error = MsgKeyModels
        /\ res.calls = <<>>
    /\ (apiKey = Empty /\ ProcessFileAnswered) =>
        /\ res.status = 500
        /\ res.error = MsgKeyChat
        /\ res.calls = <<>>
    /\ (apiKey = Empty /\ batch.pc \in {"processing", "awaiting"}) =>
        batch.calls = <<>>
    /\ ~ChatCompletionStart(apiKey, baseURL, Empty, <<>>, "latency").issued
    /\ ~ChatCompletionStart(apiKey, baseURL, Undefined, <<>>, "latency").issued

\* C9 witness: with no key configured /api/process-file has failed without a
\* request
C9_Witness ==
    /\ apiKey = Empty
    /\ ProcessFileAnswered
    /\ res.status = 500
    /\ res.error = MsgKeyChat
    /\ res.calls = <<>>

-----------------------------------------------------------------------------
(* Claims about the configuration, checked under SpecConfig *)

\* a value meets the key format: a non-empty string of more than 20
\* characters that begins with 'sk-or-'
KeyMeetsFormat(k) ==
    /\ k \notin {Undefined, Null, KeyArray}
    /\ Len(k) > 20
    /\ SubSeq(k, 1, 6) = <<"s","k","-","o","r","-">>

\* C11: the validator accepts exactly the keys that meet the format, and POST
\* /api/config answers 400 to every request whose apiKey does not meet it and
\* accepts every request whose apiKey meets it or that carries none
C11_KeyFormatEnforced ==
    /\ \A k \in ConfigKeys :
        (ValidateApiKeyCall(k).ok /\ ValidateApiKeyCall(k).value)
            <=> KeyMeetsFormat(k)
    /\ res.route = "/api/config" =>
        IF res.req.apiKey = Undefined \/ KeyMeetsFormat(res.req.apiKey)
        THEN res.status = 200
        ELSE res.status = 400 /\ res.error = MsgInvalidKey

-----------------------------------------------------------------------------
(* Claims about stored names, checked under SpecUpload *)

\* C12: two accepted files of one request with the same field name and the
\* same extension are stored under different names, and neither overwrites
\* the other's file
C12_StoredNamesDiffer ==
    (res.route = "/upload-multiple" /\ res.status = 200) =>
        LET files == res.body.files
        IN  /\ \A i, j \in 1..Len(files) :
                (i # j /\ Extname(files[i].originalName)
                              = Extname(files[j].originalName)) =>
                    files[i].filename # files[j].filename
            /\ Cardinality(DOMAIN disk) = Len(files)

-----------------------------------------------------------------------------
(* Claims about the order of processing, checked under SpecOrder *)

\* a batch request that entered the loop
BatchInLoop ==
    \/ batch.pc \in {"processing", "awaiting"}
    \/ batch.pc = "done" /\ batch.response.status = 200

\* the files an upstream request was issued for: those whose outcome holds an
\* answer of fetch, and the current file while its call is in flight
SentFiles ==
    { k \in 1..Len(batch.outcomes) : batch.outcomes[k].response.type # "none" }
    \cup (IF batch.pc = "awaiting" THEN {batch.i} ELSE {})

\* the k-th file of SentFiles in upload order
NthSent(k) ==
    CHOOSE j \in SentFiles : Cardinality({x \in SentFiles : x <= j}) = k

\* a request carries the file block built for a file of that MIME type
CallIsFor(call, file) ==
    call.body.messages[1].content[2].file.filename
        = (IF file.mimetype = <<"a","p","p","l","i","c","a","t","i","o","n","/","p","d","f">>
           THEN <<"d","o","c","u","m","e","n","t",".","p","d","f">>
           ELSE <<"i","m","a","g","e",".","p","n","g">>)

\* C13: the files of a batch are handled one at a time in upload order: every
\* file before the current one has its outcome and its entry, at most the
\* current file has a call in flight, and the requests issued are one per
\* file sent, in upload order
C13_StrictlySequential ==
    BatchInLoop =>
        /\ Len(batch.outcomes)
               = (IF batch.pc = "done" THEN Len(batch.files) ELSE batch.i - 1)
        /\ Len(batch.results) >= Len(batch.outcomes)
        /\ \A k \in 1..Len(batch.outcomes) :
               \E e \in 1..Len(batch.results) :
                   batch.results[e].fileName = batch.files[k].originalname
        /\ Len(batch.calls) = Cardinality(SentFiles)
        /\ \A k \in 1..Len(batch.calls) :
               CallIsFor(batch.calls[k], batch.files[NthSent(k)])

\* C13 witness: the call for the second file, a PDF, is in flight after the
\* call for the first file, an image, was answered
C13_Witness ==
    /\ batch.pc = "awaiting"
    /\ batch.i = 2
    /\ Len(batch.calls) = 2
    /\ Len(batch.results) = 1
    /\ batch.files[1].mimetype = ImagePng
    /\ batch.files[2].mimetype = ApplicationPdf
    /\ CallIsFor(batch.calls[2], batch.files[2])

-----------------------------------------------------------------------------
(* Claims about the shared configuration, checked under SpecShared *)

\* the step issues an upstream request for the batch
IssuesCall ==
    /\ batch.pc = "processing"
    /\ batch'.pc = "awaiting"

\* C14: the configuration is one shared value per field and the last writer
\* wins: an accepted update sets the fields it carries, for the relay and for
\* the process alike, and keeps the others; no other step, whatever request
\* is in flight, changes or restores a field; GET /api/config reports, and
\* every upstream request then issued uses, the values last written
C14_LastWriterWins ==
    /\ [][IF res'.route = "/api/config" /\ res'.status = 200
          THEN LET req == res'.req
               IN  /\ apiKey' = (IF req.apiKey # Undefined THEN req.apiKey
                                 ELSE apiKey)
                   /\ env'.OPENROUTER_API_KEY
                          = (IF req.apiKey # Undefined THEN req.apiKey
                             ELSE env.OPENROUTER_API_KEY)
                   /\ baseURL' = (IF req.baseUrl \notin {Undefined, Empty}
                                  THEN req.baseUrl ELSE baseURL)
                   /\ env'.OPENROUTER_BASE_URL
                          = (IF req.baseUrl \notin {Undefined, Empty}
                             THEN req.baseUrl ELSE env.OPENROUTER_BASE_URL)
          ELSE UNCHANGED <<apiKey, baseURL, env>>]_vars
    /\ [][IssuesCall =>
            LET call == batch'.calls[Len(batch'.calls)]
            IN  /\ call.headers.Authorization = <<"B","e","a","r","e","r"," ">> \o apiKey
                /\ call.url = baseURL \o <<"/","c","h","a","t","/","c","o","m","p","l","e","t","i","o","n","s">>]_vars
    /\ [](/\ env.OPENROUTER_API_KEY # Undefined => apiKey = env.OPENROUTER_API_KEY
          /\ env.OPENROUTER_BASE_URL # Undefined => baseURL = env.OPENROUTER_BASE_URL
          /\ res.route = "GET /api/config" =>
                /\ res.body.hasApiKey = (env.OPENROUTER_API_KEY \notin {Undefined, Empty})
                /\ res.body.baseUrl = env.OPENROUTER_BASE_URL)

\* C14 witness: while an upstream call is in flight, an update that carried
\* only a base URL has been accepted after one that set the key: the key of
\* the earlier update and the base URL of the later one are in force
C14_Witness ==
    /\ batch.pc = "awaiting"
    /\ res.route = "/api/config"
    /\ res.status = 200
    /\ res.req.apiKey = Undefined
    /\ res.req.baseUrl = AltBaseURL
    /\ apiKey = KeyB
    /\ env.OPENROUTER_API_KEY = KeyB
    /\ baseURL = AltBaseURL
    /\ env.OPENROUTER_BASE_URL = AltBaseURL

\* C15: all upstream requests issued for one batch request carry the same API
\* key and the same base URL, whatever configuration updates are handled
\* while the batch is in flight
C15_ConsistentSnapshot ==
    BatchInLoop =>
        \A i, j \in 1..Len(batch.calls) :
            /\ batch.calls[i].headers.Authorization
                   = batch.calls[j].headers.Authorization
            /\ batch.calls[i].url = batch.calls[j].url

-----------------------------------------------------------------------------
(* Claims about rejected updates, checked under SpecConfig *)

\* C16: a POST /api/config answered 400 leaves the API key, the base URL and
\* the referer, of the process and of the relay, as they were, whatever else
\* the request body carried
C16_RejectedUpdateChangesNothing ==
    [][(res'.route = "/api/config" /\ res'.status = 400) =>
          UNCHANGED <<apiKey, baseURL, env>>]_vars

\* C16 witness: an update with a bad key, a base URL and a referer has been
\* answered 400 and neither the base URL nor the referer is in force
C16_Witness ==
    /\ res.route = "/api/config"
    /\ res.status = 400
    /\ res.req.apiKey = KeyShort
    /\ res.req.baseUrl = AltBaseURL
    /\ res.req.httpReferer = AltReferer
    /\ baseURL = DefaultBaseURL
    /\ env.OPENROUTER_BASE_URL = Undefined
    /\ env.HTTP_REFERER = Undefined

-----------------------------------------------------------------------------
(* Claims about lost text, checked under SpecRelay *)

\* the non-empty texts a parsed body carries in the recognized places
TextsOf(data) ==
    ( (IF data.hasChoices
       THEN { data.choices[i] : i \in 1..Len(data.choices) } ELSE {})
      \cup (IF data.hasOutput THEN {data.outputText} ELSE {})
      \cup {data.content} )
    \ {Undefined, Empty}

\* C17: for a 2xx body that carries a non-empty text in a recognized place
\* the call returns a non-empty string containing text of the body, also when
\* the choices array is non-empty and no choice has a content
C17_NeverLosesData ==
    (ProcessFileAnswered
        /\ Len(res.calls) = 1
        /\ res.req.response.type = "response"
        /\ Ok(res.req.response)
        /\ res.req.response.data.type = "object"
        /\ TextsOf(res.req.response.data) # {}) =>
        /\ res.status = 200
        /\ res.body.result # Empty
        /\ \E t \in TextsOf(res.req.response.data) : Contains(res.body.result, t)

====
